---------------------------- MODULE Spec2Model ----------------------------
(***************************************************************************)
(* The presence relay server of src/server.js as a state machine.          *)
(*                                                                         *)
(* Node runs the server on one event loop.  A macrotask is one inbound     *)
(* frame, one socket close, one timer tick or one I/O completion; the      *)
(* handlers for 'message' and 'close' are async functions, so each runs    *)
(* synchronously up to `await persistCount(room)` and its remainder (the   *)
(* presence_count broadcast and, for a join, the binding) runs later:      *)
(*   - as a microtask when persistCount returned without awaiting a write  *)
(*     (mongoColl is null);                                                *)
(*   - after the write's I/O completion when updateOne is in flight.       *)
(* `pending` holds those suspended handlers.  The ws receiver emits the    *)
(* frames of one inbound chunk synchronously, so further frames of the     *)
(* same socket may be handled before the microtasks of the first run.      *)
(* The contents of the MongoDB collection are outside the server process   *)
(* and are not part of the state; a write is seen as issued and settled.   *)
(***************************************************************************)
EXTENDS Naturals, Sequences, FiniteSets, TLC

\* ------------------------------------------------------------------ bounds

\* How many join and leave handlers a behaviour runs up to their await (frames
\* that change no membership are not counted; a socket closes once), per
\* specification.
MaxHandlers      == 2
MaxHandlersWire  == 2
MaxHandlersSweep == 2
MaxHandlersEvict == 2
MaxHandlersMirror == 3

\* ------------------------------------------------------------- value sets

Sessions  == {"X", "Y"}
\* Sockets are named in the order they connect, which is the order in which
\* wss.clients (a Set) iterates them.
ConnectOrder == <<"X", "Y">>
RoomNames == {"lobby", "global"}
ClientIds == {"x1", "y1"}

\* JavaScript's undefined (an absent field, an unset property).
Undef    == "undefined"
\* The literal {} of `data.presence || {}`.
EmptyObj == "{}"
NoSession == "-"

\* JavaScript truthiness of the string-or-undefined values the handler tests.
Truthy(v) == v \notin {Undef, ""}

\* a || b
OrElse(a, b) == IF Truthy(a) THEN a ELSE b

\* ------------------------------------------------------------ wire frames

\* A frame that JSON.parse rejects, the JSON text `null`, and JSON objects.
Garbage  == [json |-> "garbage"]
NullJson == [json |-> "null"]

Obj(t, r, c, u, m, p) ==
    [json |-> "object", type |-> t, room |-> r, clientId |-> c,
     username |-> u, message |-> m, presence |-> p]

OptRoom == RoomNames \cup {Undef}
OptId   == ClientIds \cup {Undef}

\* Well-formed join and leave frames.
MembershipFrames ==
    {Obj(t, r, c, Undef, Undef, Undef) : t \in {"join", "leave"}, r \in RoomNames, c \in ClientIds}

\* join and leave frames with a required field absent or empty.
BrokenMembershipFrames ==
    {Obj("join", rc[1], rc[2], Undef, Undef, Undef) :
        rc \in {<<Undef, Undef>>, <<Undef, "x1">>, <<"lobby", Undef>>, <<"", "x1">>}}
      \cup {Obj("leave", Undef, Undef, Undef, Undef, Undef),
            Obj("leave", "lobby", "", Undef, Undef, Undef)}

\* chat frames: every room field with every clientId, one without username
\* and one without message.
ChatFrames ==
    {Obj("chat", r, c, "Amy", "hi", Undef) : r \in OptRoom, c \in OptId}
      \cup {Obj("chat", Undef, "x1", Undef, "hi", Undef),
            Obj("chat", Undef, "x1", "Amy", Undef, Undef)}

\* presence_update frames: every room field with every clientId, and one
\* without a presence object.
PresenceFrames ==
    {Obj("presence_update", r, c, Undef, Undef, "pos") : r \in OptRoom, c \in OptId}
      \cup {Obj("presence_update", Undef, "y1", Undef, Undef, Undef)}

PingFrame == Obj("ping", Undef, Undef, Undef, Undef, Undef)

\* The client's requestPresenceUpdate frame, a type the server does not know.
PresenceRequest == Obj("presence_request", Undef, Undef, Undef, Undef, Undef)

OtherFrames ==
    {Garbage, NullJson, Obj(Undef, "lobby", "x1", Undef, Undef, Undef),
     PresenceRequest, PingFrame}

\* The frames of the membership specifications: every well-formed join and
\* leave, and one or two frames of each other kind.
Frames ==
    MembershipFrames
      \cup {PingFrame,
            Obj("join", Undef, Undef, Undef, Undef, Undef),
            Obj("chat", Undef, "x1", "Amy", "hi", Undef),
            Obj("presence_update", "lobby", "y1", Undef, Undef, "pos")}

\* The frames of the wire specification: every shape of every type, with the
\* joins and the leave that bind two sockets to either room.
WireFrames ==
    {Obj("join", "lobby", "x1", Undef, Undef, Undef),
     Obj("join", "global", "y1", Undef, Undef, Undef),
     Obj("join", "lobby", "y1", Undef, Undef, Undef),
     Obj("leave", "lobby", "x1", Undef, Undef, Undef)}
      \cup BrokenMembershipFrames \cup ChatFrames \cup PresenceFrames \cup OtherFrames

\* ------------------------------------------------------------------ state

VARIABLES
    mongo,        \* progress of initMongo: "connecting", "indexing", "ready", "failed"
    rooms,        \* the Map rooms: room name -> Set of clientIds (DOMAIN = rooms.keys())
    readyState,   \* per socket: "none" (not yet connected), "open", "closing", "closed"
    isAlive,      \* ws.isAlive
    wsRoom,       \* ws._room
    wsClientId,   \* ws._clientId
    pending,      \* handlers suspended at `await persistCount(room)`, oldest first
    chunk,        \* the socket whose inbound data the current tick is still emitting
    budget,       \* join and leave handlers the behaviour may still run
    sendFails,    \* the sockets whose send() throws
    probed,       \* the sockets sent a transport ping that no pong has answered
    ev,           \* the step just taken (what ran, with its input)
    out           \* the messages that step handed to each socket, in order

vars == <<mongo, rooms, readyState, isAlive, wsRoom, wsClientId,
          pending, chunk, budget, sendFails, probed, ev, out>>

\* initMongo's catch block without its `mongoColl = null`.
mongoCollNotReset == mongo \in {"indexing", "ready", "failed"}

\* mongoColl is non-null from line 40 until a failed createIndex resets it (line 46).
mongoColl == mongo \in {"indexing", "ready"}

\* wss.clients: a socket stays in the set until its 'close' is emitted.
clients == {c \in Sessions : readyState[c] \in {"open", "closing"}}

NoSends == [c \in Sessions |-> <<>>]

\* The position of c in the iteration order of wss.clients.
Pos(c) == CHOOSE i \in DOMAIN ConnectOrder : ConnectOrder[i] = c

\* c.send(payload) throws: c is OPEN and its send() fails.
sendThrows(c) == c \in clients /\ readyState[c] = "open" /\ c \in sendFails

\* ev records the step just taken: the operation, its socket, the frame it
\* handled, the handler it resumed with the write's outcome, and the room a
\* relay resolved (the handler's local roomName).
NoFrame   == [json |-> "none"]
NoHandler == [kind |-> "none"]

Event(op, ws, msg, h, ok, roomName) ==
    [op |-> op, ws |-> ws, msg |-> msg, h |-> h, ok |-> ok, roomName |-> roomName]

\* --------------------------------------------------------- room registry

ensureRoom(rs, room) == IF room \in DOMAIN rs THEN rs ELSE rs @@ (room :> {})

\* (rooms.get(room) || new Set())
members(rs, room) == IF room \in DOMAIN rs THEN rs[room] ELSE {}

\* An add that removes a member already present.
setToggle(rs, room, cid) ==
    [ensureRoom(rs, room) EXCEPT ![room] = IF cid \in @ THEN @ \ {cid} ELSE @ \cup {cid}]

setAdd(rs, room, cid) ==
    [ensureRoom(rs, room) EXCEPT ![room] = @ \cup {cid}]

setDelete(rs, room, cid) ==
    [ensureRoom(rs, room) EXCEPT ![room] = @ \ {cid}]

\* ------------------------------------------------------- presence store

\* What persistCount(room) has done when it returns its promise to the caller's
\* await: nothing with the store disabled; otherwise it has read the count and
\* issued updateOne, whose completion it awaits inside its try block.
persistCount(rs, room) ==
    IF ~mongoColl
      THEN [write |-> "none", count |-> <<>>]
      ELSE [write |-> "inflight", count |-> <<Cardinality(members(rs, room))>>]

\* persistCount without its try/catch: a rejected write rejects the promise.
persistCountRethrows(ok) == ok

\* persistCount's promise fulfils whether updateOne resolved or rejected: the
\* catch block logs and swallows the rejection.
persistCountSettles(ok) == TRUE

\* -------------------------------------------------------------- sending

\* The count kept as a tally of the sockets bound to the room.
PresenceCountTally(rs, room) ==
    [type |-> "presence_count", room |-> room,
     count |-> Cardinality({c \in Sessions : wsRoom[c] = room})]

PresenceCount(rs, room) ==
    [type |-> "presence_count", room |-> room, count |-> Cardinality(members(rs, room))]

\* broadcastRoomCount has no try/catch: the first send() that throws ends the
\* forEach and the exception leaves the function.
broadcastThrows == \E c \in Sessions : sendThrows(c)

\* broadcastRoomCount(room): to every client whose socket is OPEN, in the order
\* of wss.clients, up to the first send() that throws.
broadcastRoomCount(rs, room) ==
    [c \in Sessions |->
        IF /\ c \in clients /\ readyState[c] = "open"
           /\ ~\E b \in Sessions : sendThrows(b) /\ Pos(b) <= Pos(c)
          THEN <<PresenceCount(rs, room)>> ELSE <<>>]

\* The resolution with the event's room field taken before the binding.
roomNameOfEventFirst(ws, data) == OrElse(data.room, OrElse(wsRoom[ws], "global"))

\* The resolution without the binding.
roomNameOfIgnoresBinding(ws, data) == OrElse(data.room, "global")

\* The room a relayed event is scoped to.
roomNameOf(ws, data) == OrElse(wsRoom[ws], OrElse(data.room, "global"))

PresencePayload(data, roomName) ==
    [type |-> "presence_update", clientId |-> data.clientId,
     presence |-> OrElse(data.presence, EmptyObj), room |-> roomName]

ChatPayload(data, roomName) ==
    [type |-> "chat", clientId |-> data.clientId,
     username |-> OrElse(data.username, "Player"),
     message |-> OrElse(data.message, ""), room |-> roomName]

\* The fan-out loop without its room test.
fanOutAll(payload, roomName) ==
    [c \in Sessions |->
        IF c \in clients /\ readyState[c] = "open" THEN <<payload>> ELSE <<>>]

\* The fan-out loop taking a socket without binding as bound to the room.
fanOutUnbound(payload, roomName) ==
    [c \in Sessions |->
        IF c \in clients /\ readyState[c] = "open" /\ wsRoom[c] \in {roomName, Undef}
          THEN <<payload>> ELSE <<>>]

\* The fan-out loop of presence_update and chat: each send() is in its own
\* try/catch, so a send that throws is skipped.
fanOut(payload, roomName) ==
    [c \in Sessions |->
        IF c \in clients /\ readyState[c] = "open" /\ wsRoom[c] = roomName
             /\ ~sendThrows(c)
          THEN <<payload>> ELSE <<>>]

Pong == [type |-> "pong"]

\* pong sent with the broadcast loop instead of ws.send.
pongToAll(ws) ==
    [c \in Sessions |-> IF c \in clients /\ readyState[c] = "open" THEN <<Pong>> ELSE <<>>]

\* ws.send(JSON.stringify({ type: 'pong' }))
pongTo(ws) == [c \in Sessions |-> IF c = ws /\ ~sendThrows(c) THEN <<Pong>> ELSE <<>>]

\* ---------------------------------------------------------- scheduling

microtasks == {i \in DOMAIN pending : pending[i].write = "none"}

\* A new macrotask starts only once the microtask queue has drained.
macrotask == microtasks = {}

\* A 'message' of ws is emitted at the start of a macrotask, or synchronously
\* after the previous frame of the same inbound chunk.
canEmitMessage(ws) == readyState[ws] = "open" /\ (macrotask \/ chunk = ws)

chunkAfter(ws, pend) ==
    IF \E i \in DOMAIN pend : pend[i].write = "none" THEN ws ELSE NoSession

Remove(seq, i) == SubSeq(seq, 1, i - 1) \o SubSeq(seq, i + 1, Len(seq))

Suspended(ws, kind, room, cid, p) ==
    [ws |-> ws, kind |-> kind, room |-> room, clientId |-> cid,
     write |-> p.write, count |-> p.count]

\* ------------------------------------------------------------------ init

\* The server as constructed: no socket, no room, initMongo awaiting connect.
Started(n) ==
    /\ mongo = "connecting"
    /\ rooms = <<>>
    /\ readyState = [c \in Sessions |-> "none"]
    /\ isAlive = [c \in Sessions |-> FALSE]
    /\ wsRoom = [c \in Sessions |-> Undef]
    /\ wsClientId = [c \in Sessions |-> Undef]
    /\ pending = <<>>
    /\ chunk = NoSession
    /\ budget = n
    /\ sendFails = {}
    /\ probed = {}
    /\ ev = Event("init", NoSession, NoFrame, NoHandler, TRUE, Undef)
    /\ out = NoSends

Init == Started(MaxHandlers)

\* ------------------------------------------------------------- initMongo

\* await client.connect() resolves: mongoColl is set, createIndex is awaited.
MongoConnected ==
    /\ macrotask
    /\ mongo = "connecting"
    /\ mongo' = "indexing"
    /\ ev' = Event("mongo", NoSession, NoFrame, NoHandler, TRUE, Undef)
    /\ out' = NoSends
    /\ UNCHANGED <<rooms, readyState, isAlive, wsRoom, wsClientId, pending, chunk, budget, sendFails, probed>>

\* await createIndex resolves.
MongoIndexed ==
    /\ macrotask
    /\ mongo = "indexing"
    /\ mongo' = "ready"
    /\ ev' = Event("mongo", NoSession, NoFrame, NoHandler, TRUE, Undef)
    /\ out' = NoSends
    /\ UNCHANGED <<rooms, readyState, isAlive, wsRoom, wsClientId, pending, chunk, budget, sendFails, probed>>

\* connect or createIndex rejects: the catch block sets mongoColl = null.
MongoInitFailed ==
    /\ macrotask
    /\ mongo \in {"connecting", "indexing"}
    /\ mongo' = "failed"
    /\ ev' = Event("mongo", NoSession, NoFrame, NoHandler, FALSE, Undef)
    /\ out' = NoSends
    /\ UNCHANGED <<rooms, readyState, isAlive, wsRoom, wsClientId, pending, chunk, budget, sendFails, probed>>

\* ------------------------------------------------------------ connection

\* The connection handler without line 86.
ConnectionNotAlive(ws) ==
    /\ macrotask
    /\ readyState[ws] = "none"
    /\ \A c \in Sessions : Pos(c) < Pos(ws) => readyState[c] # "none"
    /\ readyState' = [readyState EXCEPT ![ws] = "open"]
    /\ isAlive' = [isAlive EXCEPT ![ws] = FALSE]
    /\ ev' = Event("connection", ws, NoFrame, NoHandler, TRUE, Undef)
    /\ out' = NoSends
    /\ UNCHANGED <<mongo, rooms, wsRoom, wsClientId, pending, chunk, budget, sendFails, probed>>

\* wss.on('connection'): a new socket, alive, with no binding.
Connection(ws) ==
    /\ macrotask
    /\ readyState[ws] = "none"
    /\ \A c \in Sessions : Pos(c) < Pos(ws) => readyState[c] # "none"
    /\ readyState' = [readyState EXCEPT ![ws] = "open"]
    /\ isAlive' = [isAlive EXCEPT ![ws] = TRUE]
    /\ ev' = Event("connection", ws, NoFrame, NoHandler, TRUE, Undef)
    /\ out' = NoSends
    /\ UNCHANGED <<mongo, rooms, wsRoom, wsClientId, pending, chunk, budget, sendFails, probed>>

\* ws.on('pong'): the transport-level acknowledgment of a probe.
OnPong(ws) ==
    /\ macrotask
    /\ readyState[ws] = "open"
    /\ isAlive' = [isAlive EXCEPT ![ws] = TRUE]
    /\ probed' = probed \ {ws}
    /\ ev' = Event("pong", ws, NoFrame, NoHandler, TRUE, Undef)
    /\ out' = NoSends
    /\ UNCHANGED <<mongo, rooms, readyState, wsRoom, wsClientId, pending, chunk, budget, sendFails>>

\* The socket of ws breaks so that a send() on it throws from now on.
SendBreaks(ws) ==
    /\ macrotask
    /\ readyState[ws] = "open"
    /\ ws \notin sendFails
    /\ sendFails' = sendFails \cup {ws}
    /\ ev' = Event("fault", ws, NoFrame, NoHandler, TRUE, Undef)
    /\ out' = NoSends
    /\ UNCHANGED <<mongo, rooms, readyState, isAlive, wsRoom, wsClientId, pending, chunk,
                   budget, probed>>

\* --------------------------------------------------------- message handler

\* try { data = JSON.parse(msg) } catch { return }  and  if (!data || !data.type) return
accepted(msg) == msg.json = "object" /\ Truthy(msg.type)

\* The join test without its required fields.
isJoinUnchecked(data) == data.type = "join"

isJoin(data)  == data.type = "join" /\ Truthy(data.room) /\ Truthy(data.clientId)
isLeave(data) == data.type = "leave" /\ Truthy(data.room) /\ Truthy(data.clientId)
isPing(data)  == data.type = "ping"
isPresenceUpdate(data) == data.type = "presence_update" /\ Truthy(data.clientId)
isChat(data)  == data.type = "chat" /\ Truthy(data.clientId)

handled(msg) ==
    accepted(msg) /\ (isJoin(msg) \/ isLeave(msg) \/ isPing(msg)
                        \/ isPresenceUpdate(msg) \/ isChat(msg))

\* join, up to the await: the member is added and persistCount is called.
Join(ws, data) ==
    /\ canEmitMessage(ws)
    /\ accepted(data) /\ isJoin(data)
    /\ budget > 0
    /\ budget' = budget - 1
    /\ rooms' = setAdd(rooms, data.room, data.clientId)
    /\ pending' = Append(pending,
          Suspended(ws, "join", data.room, data.clientId, persistCount(rooms', data.room)))
    /\ out' = NoSends
    /\ ev' = Event("message", ws, data, NoHandler, TRUE, Undef)
    /\ UNCHANGED <<mongo, readyState, isAlive, wsRoom, wsClientId, sendFails, probed>>
    /\ chunk' = chunkAfter(ws, pending')

\* A leave that deletes the member and returns, without persist and broadcast.
LeaveSilent(ws, data) ==
    /\ canEmitMessage(ws)
    /\ accepted(data) /\ isLeave(data)
    /\ budget > 0
    /\ budget' = budget - 1
    /\ rooms' = setDelete(rooms, data.room, data.clientId)
    /\ out' = NoSends
    /\ ev' = Event("message", ws, data, NoHandler, TRUE, Undef)
    /\ UNCHANGED <<mongo, readyState, isAlive, wsRoom, wsClientId, sendFails, probed, pending>>
    /\ chunk' = chunkAfter(ws, pending')

\* leave, up to the await: the member is deleted and persistCount is called.
Leave(ws, data) ==
    /\ canEmitMessage(ws)
    /\ accepted(data) /\ isLeave(data)
    /\ budget > 0
    /\ budget' = budget - 1
    /\ rooms' = setDelete(rooms, data.room, data.clientId)
    /\ pending' = Append(pending,
          Suspended(ws, "leave", data.room, data.clientId, persistCount(rooms', data.room)))
    /\ out' = NoSends
    /\ ev' = Event("message", ws, data, NoHandler, TRUE, Undef)
    /\ UNCHANGED <<mongo, readyState, isAlive, wsRoom, wsClientId, sendFails, probed>>
    /\ chunk' = chunkAfter(ws, pending')

\* An application ping that also marks the socket alive.
PingKeepsAlive(ws, data) ==
    /\ canEmitMessage(ws)
    /\ accepted(data) /\ isPing(data)
    /\ out' = pongTo(ws)
    /\ isAlive' = [isAlive EXCEPT ![ws] = TRUE]
    /\ ev' = Event("message", ws, data, NoHandler, TRUE, Undef)
    /\ UNCHANGED <<mongo, rooms, readyState, wsRoom, wsClientId, pending, budget, sendFails, probed>>
    /\ chunk' = chunkAfter(ws, pending')

\* ping: pong to the sender.
Ping(ws, data) ==
    /\ canEmitMessage(ws)
    /\ accepted(data) /\ isPing(data)
    /\ out' = pongTo(ws)
    /\ ev' = Event("message", ws, data, NoHandler, TRUE, Undef)
    /\ UNCHANGED <<mongo, rooms, readyState, isAlive, wsRoom, wsClientId, pending, budget, sendFails, probed>>
    /\ chunk' = chunkAfter(ws, pending')

\* presence_update: relayed to the sockets bound to roomName.
PresenceUpdate(ws, data) ==
    /\ canEmitMessage(ws)
    /\ accepted(data) /\ isPresenceUpdate(data)
    /\ LET roomName == roomNameOf(ws, data) IN
         /\ out' = fanOut(PresencePayload(data, roomName), roomName)
         /\ ev' = Event("message", ws, data, NoHandler, TRUE, roomName)
    /\ UNCHANGED <<mongo, rooms, readyState, isAlive, wsRoom, wsClientId, pending, budget, sendFails, probed>>
    /\ chunk' = chunkAfter(ws, pending')

\* chat: relayed to the sockets bound to roomName.
Chat(ws, data) ==
    /\ canEmitMessage(ws)
    /\ accepted(data) /\ isChat(data)
    /\ LET roomName == roomNameOf(ws, data) IN
         /\ out' = fanOut(ChatPayload(data, roomName), roomName)
         /\ ev' = Event("message", ws, data, NoHandler, TRUE, roomName)
    /\ UNCHANGED <<mongo, rooms, readyState, isAlive, wsRoom, wsClientId, pending, budget, sendFails, probed>>
    /\ chunk' = chunkAfter(ws, pending')

\* Every other frame falls through the handler: a parse error, null, no type,
\* an unknown type, or a known type without its required fields.
Dropped(ws, msg) ==
    /\ canEmitMessage(ws)
    /\ ~handled(msg)
    /\ out' = NoSends
    /\ ev' = Event("message", ws, msg, NoHandler, TRUE, Undef)
    /\ UNCHANGED <<mongo, rooms, readyState, isAlive, wsRoom, wsClientId, pending, budget, sendFails, probed>>
    /\ chunk' = chunkAfter(ws, pending')

\* ws.on('message'), from the frame's arrival to the handler's first await or return.
OnMessage(ws, msg) ==
    \/ Join(ws, msg)
    \/ Leave(ws, msg)
    \/ Ping(ws, msg)
    \/ PresenceUpdate(ws, msg)
    \/ Chat(ws, msg)
    \/ Dropped(ws, msg)

\* ----------------------------------------------------- after the await

\* The rest of a join, leave or close handler: broadcastRoomCount(room) and,
\* for a join, the binding of the socket, unless the broadcast threw.
AfterAwait(i) ==
    LET h == pending[i]
        binds == h.kind = "join" /\ ~broadcastThrows
    IN
    /\ out' = broadcastRoomCount(rooms, h.room)
    /\ wsRoom' = IF binds THEN [wsRoom EXCEPT ![h.ws] = h.room] ELSE wsRoom
    /\ wsClientId' = IF binds THEN [wsClientId EXCEPT ![h.ws] = h.clientId] ELSE wsClientId

\* A handler whose write rejected with the rejection not swallowed ends there.
Aborted ==
    /\ out' = NoSends
    /\ UNCHANGED <<wsRoom, wsClientId>>

\* The oldest handler whose persistCount returned without a write resumes.
ResumeMicrotask(i) ==
    /\ i \in microtasks
    /\ \A j \in microtasks : i <= j
    /\ AfterAwait(i)
    /\ pending' = Remove(pending, i)
    /\ chunk' = NoSession
    /\ ev' = Event("resume", pending[i].ws, NoFrame, pending[i], TRUE, Undef)
    /\ UNCHANGED <<mongo, rooms, readyState, isAlive, budget, sendFails, probed>>

\* updateOne of a suspended handler resolves (ok) or rejects; persistCount
\* returns and the handler resumes in the same tick.
WriteSettles(i, ok) ==
    /\ macrotask
    /\ i \in DOMAIN pending
    /\ pending[i].write = "inflight"
    /\ IF persistCountSettles(ok) THEN AfterAwait(i) ELSE Aborted
    /\ pending' = Remove(pending, i)
    /\ ev' = Event("resume", pending[i].ws, NoFrame, pending[i], ok, Undef)
    /\ UNCHANGED <<mongo, rooms, readyState, isAlive, chunk, budget, sendFails, probed>>

\* ------------------------------------------------------------------ close

\* The close handler without its `if (room && cid)`.
OnCloseUnguarded(ws) ==
    /\ macrotask
    /\ readyState[ws] \in {"open", "closing"}
    /\ readyState' = [readyState EXCEPT ![ws] = "closed"]
    /\ rooms' = setDelete(rooms, wsRoom[ws], wsClientId[ws])
    /\ pending' = Append(pending,
          Suspended(ws, "close", wsRoom[ws], wsClientId[ws], persistCount(rooms', wsRoom[ws])))
    /\ out' = NoSends
    /\ ev' = Event("close", ws, NoFrame, NoHandler, TRUE, Undef)
    /\ UNCHANGED <<mongo, isAlive, wsRoom, wsClientId, chunk, budget, sendFails, probed>>

\* ws.on('close'), up to the await: the socket leaves wss.clients and the bound
\* member, if any, is deleted.
OnClose(ws) ==
    /\ macrotask
    /\ readyState[ws] \in {"open", "closing"}
    /\ readyState' = [readyState EXCEPT ![ws] = "closed"]
    /\ LET room == wsRoom[ws]
           cid  == wsClientId[ws]
       IN IF Truthy(room) /\ Truthy(cid)
            THEN /\ rooms' = setDelete(rooms, room, cid)
                 /\ pending' = Append(pending,
                       Suspended(ws, "close", room, cid, persistCount(rooms', room)))
            ELSE UNCHANGED <<rooms, pending>>
    /\ out' = NoSends
    /\ ev' = Event("close", ws, NoFrame, NoHandler, TRUE, Undef)
    /\ UNCHANGED <<mongo, isAlive, wsRoom, wsClientId, chunk, budget, sendFails, probed>>

\* ------------------------------------------------------------------ sweep

\* The setInterval callback without its terminate: every client is marked and
\* probed again.
SweepProbesOnly ==
    /\ macrotask
    /\ clients # {}
    /\ isAlive' = [c \in Sessions |-> IF c \in clients THEN FALSE ELSE isAlive[c]]
    /\ probed' = probed \cup clients
    /\ out' = NoSends
    /\ ev' = Event("sweep", NoSession, NoFrame, NoHandler, TRUE, Undef)
    /\ UNCHANGED <<mongo, rooms, readyState, wsRoom, wsClientId, pending, chunk, budget,
                   sendFails>>

\* The setInterval callback: terminate the sockets that did not answer the last
\* probe, mark the others and probe them.
Sweep ==
    /\ macrotask
    /\ clients # {}
    /\ readyState' = [c \in Sessions |->
          IF c \in clients /\ ~isAlive[c] THEN "closing" ELSE readyState[c]]
    /\ isAlive' = [c \in Sessions |-> IF c \in clients THEN FALSE ELSE isAlive[c]]
    /\ probed' = probed \cup {c \in clients : isAlive[c]}
    /\ out' = NoSends
    /\ ev' = Event("sweep", NoSession, NoFrame, NoHandler, TRUE, Undef)
    /\ UNCHANGED <<mongo, rooms, wsRoom, wsClientId, pending, chunk, budget, sendFails>>

\* ------------------------------------------------------------------- next

\* The server without its liveness sweep, fed frames from F.
Server(F) ==
    \/ MongoConnected
    \/ MongoIndexed
    \/ MongoInitFailed
    \/ \E ws \in Sessions : Connection(ws)
    \/ \E ws \in Sessions, msg \in F : OnMessage(ws, msg)
    \/ \E i \in DOMAIN pending : ResumeMicrotask(i)
    \/ \E i \in DOMAIN pending, ok \in BOOLEAN : WriteSettles(i, ok)
    \/ \E ws \in Sessions : OnClose(ws)

Next == Server(Frames)

Spec == Init /\ [][Next]_vars

\* The same server fed every shape of frame.
InitWire == Started(MaxHandlersWire)

NextWire == Server(WireFrames)

SpecWire == InitWire /\ [][NextWire]_vars

\* The server with its liveness sweep and the transport's pong.
InitSweep == Started(MaxHandlersSweep)

NextSweep ==
    \/ Server(Frames)
    \/ \E ws \in Sessions : OnPong(ws)
    \/ Sweep

SpecSweep == InitSweep /\ [][NextSweep]_vars

\* The server with sockets whose send() may start to throw.
NextSend ==
    \/ Server(Frames)
    \/ \E ws \in Sessions : SendBreaks(ws)

SpecSend == Init /\ [][NextSend]_vars

\* The server of Spec under the scheduling its awaits rely on: the microtask
\* queue is run and the driver settles every write it was handed.
FairHandlers ==
    /\ WF_vars(\E i \in DOMAIN pending : ResumeMicrotask(i))
    /\ WF_vars(\E i \in DOMAIN pending, ok \in BOOLEAN : WriteSettles(i, ok))

SpecFair == Init /\ [][Next]_vars /\ FairHandlers

\* The server with the store connected before the first socket and no write
\* failing, its clients sending joins and leaves.
InitMirror ==
    /\ mongo = "ready"
    /\ rooms = <<>>
    /\ readyState = [c \in Sessions |-> "none"]
    /\ isAlive = [c \in Sessions |-> FALSE]
    /\ wsRoom = [c \in Sessions |-> Undef]
    /\ wsClientId = [c \in Sessions |-> Undef]
    /\ pending = <<>>
    /\ chunk = NoSession
    /\ budget = MaxHandlersMirror
    /\ sendFails = {}
    /\ probed = {}
    /\ ev = Event("mongo", NoSession, NoFrame, NoHandler, TRUE, Undef)
    /\ out = NoSends

NextMirror ==
    \/ \E ws \in Sessions : Connection(ws)
    \/ \E ws \in Sessions, msg \in MembershipFrames : Join(ws, msg)
    \/ \E ws \in Sessions, msg \in MembershipFrames : Leave(ws, msg)
    \/ \E i \in DOMAIN pending : WriteSettles(i, TRUE)
    \/ \E ws \in Sessions : OnClose(ws)

SpecMirror == InitMirror /\ [][NextMirror]_vars

\* The server with its sweep, its clients sending joins only, under the
\* scheduling the eviction relies on: the interval timer keeps firing, the
\* transport emits 'close' for a terminated socket, the microtask queue is
\* run, and the driver settles every write it was handed.
JoinFrames == {Obj("join", "lobby", c, Undef, Undef, Undef) : c \in ClientIds}

InitEvict == Started(MaxHandlersEvict)

Terminated(ws) == OnClose(ws) /\ readyState[ws] = "closing"

NextEvict ==
    \/ MongoConnected
    \/ MongoInitFailed
    \/ \E ws \in Sessions : Connection(ws)
    \/ \E ws \in Sessions, msg \in JoinFrames : Join(ws, msg)
    \/ \E i \in DOMAIN pending : ResumeMicrotask(i)
    \/ \E i \in DOMAIN pending, ok \in BOOLEAN : WriteSettles(i, ok)
    \/ \E ws \in Sessions : OnClose(ws)
    \/ \E ws \in Sessions : OnPong(ws)
    \/ Sweep

FairEvict ==
    /\ WF_vars(Sweep)
    /\ \A ws \in Sessions : WF_vars(Terminated(ws))
    /\ WF_vars(\E i \in DOMAIN pending : ResumeMicrotask(i))
    /\ WF_vars(\E i \in DOMAIN pending, ok \in BOOLEAN : WriteSettles(i, ok))

SpecEvict == InitEvict /\ [][NextEvict]_vars /\ FairEvict

\* ------------------------------------------------------------- properties

\* The step just taken handled a frame that parsed to an object.
FrameStep == ev.op = "message" /\ ev.msg.json = "object"

\* The step just taken relayed a chat or a presence_update.
RelayStep ==
    /\ FrameStep
    /\ ev.msg.type \in {"chat", "presence_update"}
    /\ ev.msg.clientId \in ClientIds

IsOpen(c) == readyState[c] = "open"

\* C1: room isolation.  A chat or presence_update sent by a socket bound to
\* room r1 is handed to no socket bound to another room r2.
RoomIsolation ==
    \A c \in Sessions :
        (/\ RelayStep
         /\ wsRoom[ev.ws] \in RoomNames
         /\ wsRoom[c] \in RoomNames
         /\ wsRoom[c] # wsRoom[ev.ws]) => out[c] = <<>>

\* A bound socket relayed, its own room got the event, and an open socket
\* bound to the other room exists.
RoomIsolationWitness ==
    /\ RelayStep
    /\ wsRoom[ev.ws] \in RoomNames
    /\ out[ev.ws] # <<>>
    /\ \E c \in Sessions :
          IsOpen(c) /\ wsRoom[c] \in RoomNames /\ wsRoom[c] # wsRoom[ev.ws]

\* What the claim says a relayed chat looks like in room r.
ExpectedChat(msg, r) ==
    [type |-> "chat", clientId |-> msg.clientId,
     username |-> IF msg.username = Undef THEN "Player" ELSE msg.username,
     message |-> msg.message, room |-> r]

\* What the claim says a relayed presence_update looks like in room r.
ExpectedPresence(msg, r) ==
    [type |-> "presence_update", clientId |-> msg.clientId,
     presence |-> msg.presence, room |-> r]

\* C2: scoped fan-out is complete and faithful.  When a socket bound to room r
\* sends a chat with a clientId and a message (a presence_update with a
\* clientId and a presence), every open socket bound to r is handed exactly
\* that one message, carrying the event's own fields, username defaulting to
\* "Player", and room r; every other socket is handed nothing.
ScopedFanOut ==
    (RelayStep /\ wsRoom[ev.ws] \in RoomNames) =>
        LET r == wsRoom[ev.ws]
            to(c, payload) == IF IsOpen(c) /\ wsRoom[c] = r THEN <<payload>> ELSE <<>>
        IN /\ (ev.msg.type = "chat" /\ ev.msg.message # Undef) =>
                 \A c \in Sessions : out[c] = to(c, ExpectedChat(ev.msg, r))
           /\ (ev.msg.type = "presence_update" /\ ev.msg.presence # Undef) =>
                 \A c \in Sessions : out[c] = to(c, ExpectedPresence(ev.msg, r))

\* A chat without username reached both sockets, bound to the same room, each
\* exactly once.
ScopedFanOutWitness ==
    /\ RelayStep
    /\ ev.msg.type = "chat" /\ ev.msg.username = Undef /\ ev.msg.message = "hi"
    /\ wsRoom[ev.ws] \in RoomNames
    /\ \A c \in Sessions : IsOpen(c) /\ wsRoom[c] = wsRoom[ev.ws] /\ Len(out[c]) = 1

\* C9: ping.  An application-level ping hands one pong to the sender and
\* nothing to any other socket, and leaves every member set and every binding
\* as it was.
PingOnlyPongs ==
    [][(ev'.op = "message" /\ ev'.msg = PingFrame) =>
         /\ out' = [c \in Sessions |-> IF c = ev'.ws THEN <<Pong>> ELSE <<>>]
         /\ rooms' = rooms
         /\ wsRoom' = wsRoom
         /\ wsClientId' = wsClientId]_vars

\* A ping was answered while another open socket shared the sender's room.
PingWitness ==
    /\ ev.op = "message" /\ ev.msg = PingFrame
    /\ out[ev.ws] = <<Pong>>
    /\ \E c \in Sessions \ {ev.ws} : IsOpen(c) /\ wsRoom[c] = wsRoom[ev.ws]
    /\ wsRoom[ev.ws] \in RoomNames

KnownTypes == {"join", "leave", "ping", "presence_update", "chat"}

\* The frames the claim calls malformed: unparseable, without type, of an
\* unknown type, or a join or leave lacking room or clientId.
Malformed(msg) ==
    \/ msg.json \in {"garbage", "null"}
    \/ /\ msg.json = "object"
       /\ \/ msg.type = Undef
          \/ msg.type \notin KnownTypes
          \/ msg.type \in {"join", "leave"} /\ (msg.room = Undef \/ msg.clientId = Undef)

\* C10: malformed input is dropped.  Such a frame hands no message to any
\* socket, changes no member set and no binding, and suspends no handler (so
\* issues no store write).
MalformedDropped ==
    [][(ev'.op = "message" /\ Malformed(ev'.msg)) =>
         /\ out' = NoSends
         /\ rooms' = rooms
         /\ wsRoom' = wsRoom
         /\ wsClientId' = wsClientId
         /\ pending' = pending]_vars

\* A join without room and clientId was dropped while the store was enabled
\* and a bound socket was open to receive a broadcast.
MalformedDroppedWitness ==
    /\ FrameStep
    /\ ev.msg.type = "join" /\ ev.msg.room = Undef /\ ev.msg.clientId = Undef
    /\ mongoColl
    /\ \E c \in Sessions : IsOpen(c) /\ wsRoom[c] \in RoomNames

\* The step just taken ran the rest of a handler, after its await.
ResumeStep == ev.op = "resume"

\* What broadcastRoomCount(room) hands out when every open socket gets the
\* count of the room's member set as it is now.
CountToAllOpen(room) ==
    [c \in Sessions |->
        IF IsOpen(c)
          THEN <<[type |-> "presence_count", room |-> room,
                  count |-> Cardinality(members(rooms, room))]>>
          ELSE <<>>]

\* C3: join.  Once a well-formed join(room, clientId) has been processed,
\* clientId is a member of room, the sender is bound to (room, clientId), and
\* every open socket was handed presence_count{room, |members(room)|}.
JoinPostcondition ==
    (ResumeStep /\ ev.h.kind = "join") =>
        /\ ev.h.clientId \in members(rooms, ev.h.room)
        /\ wsRoom[ev.h.ws] = ev.h.room
        /\ wsClientId[ev.h.ws] = ev.h.clientId
        /\ out = CountToAllOpen(ev.h.room)

\* The sockets that have joined room r: bound to it, or with a join for it
\* suspended at its await.
JoinedRoom(ws, r) ==
    \/ wsRoom[ws] = r
    \/ \E i \in DOMAIN pending :
          pending[i].kind = "join" /\ pending[i].ws = ws /\ pending[i].room = r

\* C4: cleanup on disconnect.  When a socket that joined room r closes, the
\* count of r decreases by exactly 1.
CleanupOnDisconnect ==
    [][\A ws \in Sessions, r \in RoomNames :
          (/\ readyState[ws] \in {"open", "closing"}
           /\ readyState'[ws] = "closed"
           /\ JoinedRoom(ws, r))
          => Cardinality(members(rooms', r)) + 1 = Cardinality(members(rooms, r))]_vars

\* C5: event atomicity.  With the store enabled, the count a join, leave or
\* close broadcasts is the size of the member set right after that event's
\* own mutation (the count persistCount read in the same synchronous step).
EventAtomicity ==
    (ResumeStep /\ ev.h.write = "inflight") =>
        \A c \in Sessions :
            IsOpen(c) => out[c] = <<[type |-> "presence_count", room |-> ev.h.room,
                                     count |-> ev.h.count[1]]>>

\* The room of the newest join of ws that is suspended at its await.
NewestPendingJoin(ws) ==
    LET js == {i \in DOMAIN pending : pending[i].kind = "join" /\ pending[i].ws = ws}
    IN  pending[CHOOSE i \in js : \A j \in js : j <= i].room

HasPendingJoin(ws) ==
    \E i \in DOMAIN pending : pending[i].kind = "join" /\ pending[i].ws = ws

\* C6: per-connection ordering.  A chat or presence_update that a socket sends
\* after a join is scoped to the room of that join, also while the join is
\* still suspended.
PerConnectionOrdering ==
    (RelayStep /\ HasPendingJoin(ev.ws)) => ev.roomName = NewestPendingJoin(ev.ws)

\* The step just taken ran a join, leave or close handler up to an await on a
\* store write that is now in flight.
IssuedWrite ==
    /\ ev.op \in {"message", "close"}
    /\ pending # <<>>
    /\ LET h == pending[Len(pending)] IN
         /\ h.write = "inflight"
         /\ h.ws = ev.ws
         /\ \/ ev.op = "close" /\ h.kind = "close"
            \/ FrameStep /\ h.kind = ev.msg.type /\ h.room = ev.msg.room
                         /\ h.clientId = ev.msg.clientId

\* C7: persistence is fire-and-forget.  The step that issues the store write
\* of a join, leave or close also broadcasts the presence_count and, for a
\* join, records the binding.
FireAndForget ==
    IssuedWrite =>
        LET h == pending[Len(pending)] IN
        /\ out = CountToAllOpen(h.room)
        /\ h.kind = "join" => wsRoom[h.ws] = h.room /\ wsClientId[h.ws] = h.clientId

\* The step just taken resumed a handler whose store write rejected.
WriteFailed(e) == e.op = "resume" /\ e.h.write = "inflight" /\ ~e.ok

\* C8: storage-failure isolation.  When the store write of a join, leave or
\* close rejects, the handler still runs to its end: no member set changes (the
\* mutation is not rolled back), every open socket is handed presence_count
\* with the size of the room's member set, and a join records its binding.
StorageFailureIsolation ==
    [][WriteFailed(ev') =>
         /\ rooms' = rooms
         /\ out' = [c \in Sessions |->
               IF readyState'[c] = "open"
                 THEN <<[type |-> "presence_count", room |-> ev'.h.room,
                         count |-> Cardinality(members(rooms', ev'.h.room))]>>
                 ELSE <<>>]
         /\ ev'.h.kind = "join" =>
               wsRoom'[ev'.h.ws] = ev'.h.room /\ wsClientId'[ev'.h.ws] = ev'.h.clientId]_vars

\* The write of a join rejected; its member is still in the room and an open
\* socket was handed a count of at least 1.
StorageFailureWitness ==
    /\ WriteFailed(ev)
    /\ ev.h.kind = "join"
    /\ ev.h.clientId \in members(rooms, ev.h.room)
    /\ \E c \in Sessions : IsOpen(c) /\ out[c] # <<>> /\ out[c][1].count >= 1

\* The step just taken relayed a chat of a socket without binding, the chat
\* carrying no room field.
UnboundChat ==
    /\ RelayStep
    /\ ev.msg.type = "chat"
    /\ ev.msg.room = Undef
    /\ wsRoom[ev.ws] = Undef

\* C11: fallback room resolution.  A chat from a socket with no binding and no
\* room field is handed only to sockets that are unbound as well, never to a
\* socket bound to a room through a join.
FallbackOnlyUnbound ==
    UnboundChat => \A c \in Sessions : out[c] # <<>> => wsRoom[c] = Undef

\* The rooms whose member set holds cid.
roomsOf(cid) == {r \in DOMAIN rooms : cid \in rooms[r]}

\* C12: a client identifier is a member of at most one room at a time.
AtMostOneRoom ==
    \A cid \in ClientIds : Cardinality(roomsOf(cid)) <= 1

\* The step e handled a well-formed join.
JoinFrame(e) ==
    /\ e.op = "message" /\ e.msg.json = "object"
    /\ e.msg.type = "join" /\ e.msg.room \in RoomNames /\ e.msg.clientId \in ClientIds

\* C13: membership idempotence.  A join(r, c) makes the member set of r the
\* old set with c in it and touches no other room, so a second join(r, c),
\* from whichever socket, leaves the set as the first one made it; the count
\* the join hands to the store is the cardinality of that set.
MembershipIdempotence ==
    [][JoinFrame(ev') =>
         LET r == ev'.msg.room
             c == ev'.msg.clientId
             h == pending'[Len(pending')]
         IN /\ members(rooms', r) = members(rooms, r) \cup {c}
            /\ c \in members(rooms, r) => members(rooms', r) = members(rooms, r)
            /\ \A q \in RoomNames \ {r} : members(rooms', q) = members(rooms, q)
            /\ h.write = "inflight" => h.count = <<Cardinality(members(rooms', r))>>]_vars

\* The same join(r, c) was processed twice, by two sockets, with the store
\* enabled: both handlers are suspended, r has the one member and both writes
\* carry count 1.
MembershipIdempotenceWitness ==
    /\ JoinFrame(ev)
    /\ Len(pending) = 2
    /\ pending[1].kind = "join" /\ pending[2].kind = "join"
    /\ pending[1].ws # pending[2].ws
    /\ pending[1].room = pending[2].room /\ pending[1].clientId = pending[2].clientId
    /\ members(rooms, ev.msg.room) = {ev.msg.clientId}
    /\ pending[1].count = <<1>> /\ pending[2].count = <<1>>

\* C14: the count is derived from the authoritative set.  Every presence_count
\* handed to a socket is handed out by the rest of a join, leave or close
\* handler, names that handler's room and carries the cardinality of the room's
\* member set as it is in that step (0 for a room without members, never
\* negative); the count a handler hands to the store is the cardinality of the
\* member set in the step that issues the write.
CountFromSet ==
    /\ \A c \in Sessions : \A k \in DOMAIN out[c] :
          out[c][k].type = "presence_count" =>
              /\ ResumeStep
              /\ out[c][k].room = ev.h.room
              /\ out[c][k].count = Cardinality(members(rooms, ev.h.room))
              /\ out[c][k].count >= 0
    /\ IssuedWrite =>
          LET h == pending[Len(pending)] IN
          h.count = <<Cardinality(members(rooms, h.room))>>

\* A leave emptied a room that had a member: its write carried count 0 and,
\* the room still being empty when the write settled, so did its broadcast.
CountFromSetWitness ==
    /\ ResumeStep
    /\ ev.h.kind = "leave" /\ ev.h.write = "inflight" /\ ev.h.count = <<0>>
    /\ ev.h.room \in DOMAIN rooms /\ rooms[ev.h.room] = {}
    /\ \E c \in Sessions :
          out[c] = <<[type |-> "presence_count", room |-> ev.h.room, count |-> 0]>>
    /\ \E c \in Sessions : wsRoom[c] = ev.h.room

\* The socket has a recorded binding.
Bound(c) == wsRoom[c] \in RoomNames /\ wsClientId[c] \in ClientIds

\* The step just taken ran the rest of the close handler of c and handed the
\* count of its room to every open socket.
CleanupBroadcast(c) ==
    /\ ResumeStep
    /\ ev.h.kind = "close" /\ ev.h.ws = c
    /\ out = CountToAllOpen(ev.h.room)

\* C15: eviction liveness.  A sweep terminates every client whose probe of the
\* sweep before is still unanswered; the close of a bound socket removes its
\* clientId from its bound room; a terminated bound socket leads to the
\* presence_count broadcast of its close handler; and, the timer firing, every
\* open socket eventually is closed or answers a probe.
EvictionLiveness ==
    /\ [][ev'.op = "sweep" =>
            \A c \in Sessions :
                (c \in probed /\ readyState[c] = "open") => readyState'[c] = "closing"]_vars
    /\ [][\A c \in Sessions :
            (ev'.op = "close" /\ ev'.ws = c /\ Bound(c)) =>
                wsClientId[c] \notin members(rooms', wsRoom[c])]_vars
    /\ \A c \in Sessions :
          (readyState[c] = "closing" /\ Bound(c)) ~> CleanupBroadcast(c)
    /\ \A c \in Sessions :
          IsOpen(c) ~> (readyState[c] = "closed" \/ (ev.op = "pong" /\ ev.ws = c))

\* A sweep terminated a bound socket whose probe was unanswered, its clientId
\* still in its room and another socket open to receive the count.
EvictionWitness ==
    /\ ev.op = "sweep"
    /\ \E c \in Sessions :
          /\ readyState[c] = "closing" /\ c \in probed /\ Bound(c)
          /\ wsClientId[c] \in members(rooms, wsRoom[c])
          /\ \E d \in Sessions \ {c} : IsOpen(d)

\* C16: no false eviction.  A socket is terminated only by a sweep that finds
\* its alive flag false, which is only when an earlier sweep probed it and no
\* pong has come since; so a socket that answers every probe, and a socket at
\* the first sweep after it connected, is not terminated.
NoFalseEviction ==
    [][\A c \in Sessions :
          (readyState[c] = "open" /\ readyState'[c] = "closing") =>
              /\ ev'.op = "sweep"
              /\ ~isAlive[c]
              /\ c \in probed]_vars

\* A sweep terminated one socket, probed and silent, and left the other, which
\* it probed again, open.
NoFalseEvictionWitness ==
    /\ ev.op = "sweep"
    /\ \E c, d \in Sessions :
          /\ readyState[c] = "closing" /\ c \in probed
          /\ IsOpen(d) /\ d \in probed /\ ~isAlive[d]

\* A relay step hands the event to every open socket of the room whose send
\* works.
FanOutSendIsolated ==
    RelayStep =>
        \A c \in Sessions :
            (IsOpen(c) /\ wsRoom[c] = ev.roomName /\ c \notin sendFails) => Len(out[c]) = 1

\* The rest of a join, leave or close handler hands the count to every open
\* socket whose send works and runs to its end (a join records its binding).
BroadcastSendIsolated ==
    ResumeStep =>
        /\ \A c \in Sessions :
              (IsOpen(c) /\ c \notin sendFails) =>
                  out[c] = <<[type |-> "presence_count", room |-> ev.h.room,
                              count |-> Cardinality(members(rooms, ev.h.room))]>>
        /\ ev.h.kind = "join" =>
              wsRoom[ev.h.ws] = ev.h.room /\ wsClientId[ev.h.ws] = ev.h.clientId

\* C17: per-recipient send failure is isolated.  In a presence_count broadcast
\* and in a chat or presence_update fan-out, a send that throws for one socket
\* keeps the message from no other eligible open socket and does not end the
\* handler.
SendFailureIsolated == FanOutSendIsolated /\ BroadcastSendIsolated

\* C18: leave.  Once a well-formed leave(room, clientId) has been processed,
\* clientId is not a member of room and every open socket was handed
\* presence_count{room, |members(room)|}.
LeavePostcondition ==
    (ResumeStep /\ ev.h.kind = "leave") =>
        /\ ev.h.clientId \notin members(rooms, ev.h.room)
        /\ out = CountToAllOpen(ev.h.room)

\* No join of ws has been processed: it has no binding and no join of it is
\* suspended at its await.
NeverJoined(ws) ==
    /\ wsRoom[ws] = Undef
    /\ wsClientId[ws] = Undef
    /\ ~HasPendingJoin(ws)

\* C19: the disconnect of a never-joined socket is a no-op.  When such a socket
\* closes, by itself or terminated by the sweep, no member set changes, nothing
\* is handed to any socket, and no handler is suspended (so no store write is
\* issued and no presence_count follows).
NeverJoinedCloseNoOp ==
    [][\A ws \in Sessions :
          (ev'.op = "close" /\ ev'.ws = ws /\ NeverJoined(ws)) =>
              /\ rooms' = rooms
              /\ out' = NoSends
              /\ pending' = pending]_vars

\* A never-joined socket that the sweep had probed closed while the store was
\* enabled and a bound socket was open, its member in its room.
NeverJoinedCloseWitness ==
    /\ ev.op = "close"
    /\ NeverJoined(ev.ws)
    /\ ev.ws \in probed /\ ~isAlive[ev.ws]
    /\ mongoColl
    /\ \E c \in Sessions :
          IsOpen(c) /\ Bound(c) /\ wsClientId[c] \in members(rooms, wsRoom[c])

\* The step just taken handled a chat without a message field or a
\* presence_update without a presence object.
MissingPayload ==
    /\ FrameStep
    /\ \/ ev.msg.type = "chat" /\ ev.msg.message = Undef
       \/ ev.msg.type = "presence_update" /\ ev.msg.presence = Undef

\* C20: missing required fields drop chat and presence_update.  A chat without
\* message, or a presence_update without presence, hands no message to any
\* socket.
MissingFieldsDropped == MissingPayload => out = NoSends

\* A relay step hands the event to every open socket bound to its room.
RelayWorks ==
    RelayStep =>
        \A c \in Sessions : (IsOpen(c) /\ wsRoom[c] = ev.roomName) => Len(out[c]) = 1

\* The rest of a join, leave or close handler hands the count to every open
\* socket.
BroadcastWorks == ResumeStep => out = CountToAllOpen(ev.h.room)

\* C21: permanently disabled store.  Once initMongo has failed, at connect or
\* at createIndex, the store is never enabled again and no handler issues a
\* write, while a join still adds its member and suspends only for a microtask,
\* every handler still broadcasts its count, and chat and presence_update are
\* still relayed.
StorePermanentlyDisabled ==
    [][mongo = "failed" =>
         /\ mongo' = "failed"
         /\ ~mongoColl'
         /\ \A i \in DOMAIN pending' :
               pending'[i].write = "inflight" => \E j \in DOMAIN pending : pending[j] = pending'[i]
         /\ JoinFrame(ev') =>
               /\ ev'.msg.clientId \in members(rooms', ev'.msg.room)
               /\ Len(pending') = Len(pending) + 1
         /\ BroadcastWorks'
         /\ RelayWorks']_vars

\* createIndex failed with a write in flight, and a join handled after the
\* failure added its member and issued no write.
StoreDisabledWitness ==
    /\ mongo = "failed"
    /\ JoinFrame(ev)
    /\ Len(pending) = 2
    /\ pending[1].write = "inflight"
    /\ pending[2].write = "none" /\ pending[2].kind = "join"
    /\ pending[2].clientId \in members(rooms, pending[2].room)

\* The room the claim resolves for a relayed event of socket ws.
ResolvedRoom(ws, msg) ==
    IF wsRoom[ws] \in RoomNames THEN wsRoom[ws]
    ELSE IF msg.room \in RoomNames THEN msg.room
    ELSE "global"

\* C22: room resolution order for relay.  The binding of a socket is the room
\* of the join of it that was processed to its end most recently: such a join
\* sets it, and no other step, a leave included, changes it.  A chat or
\* presence_update is scoped to the sender's binding if it has one, whatever
\* room the event names, otherwise to the event's room, otherwise to "global",
\* and is handed to no socket bound elsewhere.
ResolutionOrder ==
    [][/\ \A c \in Sessions :
            IF ev'.op = "resume" /\ ev'.h.kind = "join" /\ ev'.h.ws = c
              THEN wsRoom'[c] = ev'.h.room
              ELSE wsRoom'[c] = wsRoom[c]
       /\ (ev'.op = "message" /\ ev'.msg.json = "object"
             /\ ev'.msg.type \in {"chat", "presence_update"}
             /\ ev'.msg.clientId \in ClientIds) =>
            /\ ev'.roomName = ResolvedRoom(ev'.ws, ev'.msg)
            /\ \A c \in Sessions :
                  out'[c] # <<>> =>
                      /\ wsRoom[c] = ResolvedRoom(ev'.ws, ev'.msg)
                      /\ out'[c][1].room = ResolvedRoom(ev'.ws, ev'.msg)]_vars

\* A socket bound to lobby, whose clientId has left lobby since, sent an event
\* naming "global"; it was scoped to lobby and handed back to the sender.
ResolutionOrderWitness ==
    /\ RelayStep
    /\ wsRoom[ev.ws] = "lobby" /\ ev.msg.room = "global"
    /\ wsClientId[ev.ws] \notin members(rooms, "lobby")
    /\ ev.roomName = "lobby"
    /\ out[ev.ws] # <<>>

\* The step just taken settled the last write in flight.
LastWriteSettled ==
    /\ ResumeStep
    /\ ev.h.write = "inflight" /\ ev.ok
    /\ pending = <<>>

\* C23: the persisted mirror converges.  With the store connected and no write
\* failing, once every write in flight has completed the count the store holds
\* for a room is the size of its member set: the write that completes last,
\* which is the last one the store applies to its room's record, carries the
\* room's final count.
MirrorConverges ==
    LastWriteSettled => ev.h.count = <<Cardinality(members(rooms, ev.h.room))>>

\* C24: room lifecycle.  The set of room names in the registry only grows, and
\* a name enters it only in the step that handles a join naming it.
RoomLifecycle ==
    [][/\ DOMAIN rooms \subseteq DOMAIN rooms'
       /\ \A r \in DOMAIN rooms' \ DOMAIN rooms :
             JoinFrame(ev') /\ ev'.msg.room = r]_vars

\* C25: no leaked members.  Whenever no socket is connected and no handler is
\* pending, every room's member set is empty.
NoLeakedMembers ==
    (clients = {} /\ pending = <<>>) => \A r \in DOMAIN rooms : rooms[r] = {}

\* C26: relay reaches only current members.  Whenever a chat or presence_update
\* relayed for room r is handed to a socket, that socket's recorded clientId is
\* a member of r.
RelayOnlyToMembers ==
    RelayStep =>
        \A c \in Sessions :
            out[c] # <<>> => wsClientId[c] \in members(rooms, ev.roomName)

\* A handler for room r is suspended at its await.
PendingFor(r) == \E i \in DOMAIN pending : pending[i].room = r

\* C27: the clients' count view converges.  Every step that changes the member
\* set of a room r suspends a handler for r; a suspended handler for r leads to
\* a presence_count broadcast for r; and every broadcast for r carries
\* |members(r)| as it is when the broadcast is made.  So each mutation of r is
\* followed by a broadcast for r, and when nothing is pending the last
\* broadcast for r was made after the last mutation of r, with the final count.
CountViewConverges ==
    /\ [][\A r \in RoomNames :
            members(rooms', r) # members(rooms, r) =>
                /\ Len(pending') = Len(pending) + 1
                /\ pending'[Len(pending')].room = r]_vars
    /\ \A r \in RoomNames :
          PendingFor(r) ~> (ResumeStep /\ ev.h.room = r /\ out = CountToAllOpen(r))
    /\ [](\A r \in RoomNames :
            (ResumeStep /\ ev.h.room = r) => out = CountToAllOpen(r))

\* Every join and leave the behaviour may run has been handled and the last
\* suspended handler has resumed: it handed the room's final count, 1, to an
\* open socket.
CountViewWitness ==
    /\ ResumeStep
    /\ pending = <<>>
    /\ budget = 0
    /\ Cardinality(members(rooms, ev.h.room)) = 1
    /\ \E c \in Sessions :
          out[c] = <<[type |-> "presence_count", room |-> ev.h.room, count |-> 1]>>

\* The step e is a leave or the close of a connected socket.
LeaveOrClose(e) ==
    \/ e.op = "close"
    \/ e.op = "message" /\ e.msg.json = "object" /\ e.msg.type = "leave"

\* C28: membership is owned by the joining socket.  A clientId leaves a room's
\* member set only in a leave or close step of a connected socket whose
\* recorded clientId is that id.
MembershipOwned ==
    [][\A r \in RoomNames, cid \in ClientIds :
          (cid \in members(rooms, r) /\ cid \notin members(rooms', r)) =>
              /\ LeaveOrClose(ev')
              /\ ev'.ws \in clients
              /\ wsClientId[ev'.ws] = cid]_vars

\* C29: the relayed identity matches the sender.  Every chat or presence_update
\* handed to a socket carries the clientId recorded on the sending socket by
\* its join.
RelayedIdentity ==
    RelayStep =>
        \A c \in Sessions : \A k \in DOMAIN out[c] :
            out[c][k].clientId = wsClientId[ev.ws]

\* C30: persisted and broadcast counts agree per event.  With the store
\* enabled, every presence_count a join, leave or close handler hands out
\* carries the count that handler wrote to the store.
PersistedEqualsBroadcast ==
    (ResumeStep /\ ev.h.write = "inflight" /\ ev.ok) =>
        \A c \in Sessions : \A k \in DOMAIN out[c] :
            <<out[c][k].count>> = ev.h.count

\* C31: application traffic does not keep a socket alive.  The alive flag of a
\* socket becomes true only at its connection and at its transport pong; a
\* frame of any type, and the rest of any handler, leaves every flag as it was;
\* so a sweep terminates each open socket whose probe is unanswered, whatever
\* frames it has sent since.
TrafficKeepsNotAlive ==
    [][/\ \A c \in Sessions :
            (~isAlive[c] /\ isAlive'[c]) =>
                ev'.op \in {"connection", "pong"} /\ ev'.ws = c
       /\ ev'.op \in {"message", "resume"} => isAlive' = isAlive
       /\ ev'.op = "sweep" =>
            \A c \in Sessions :
                (c \in probed /\ readyState[c] = "open") => readyState'[c] = "closing"]_vars

\* A socket with an unanswered probe sent an application ping: it got its pong
\* and its alive flag is still false.
TrafficWitness ==
    /\ ev.op = "message" /\ ev.msg = PingFrame
    /\ ev.ws \in probed
    /\ ~isAlive[ev.ws]
    /\ out[ev.ws] = <<Pong>>

\* C32: sender echo.  A chat or presence_update of a socket whose binding is
\* the resolved room is handed back to that socket, once, with the event's
\* type and clientId; a chat or presence_update of a socket without binding,
\* resolved to the event's room or to "global", is not handed back to it.
SenderEcho ==
    RelayStep =>
        /\ wsRoom[ev.ws] = ResolvedRoom(ev.ws, ev.msg) =>
              /\ Len(out[ev.ws]) = 1
              /\ out[ev.ws][1].type = ev.msg.type
              /\ out[ev.ws][1].clientId = ev.msg.clientId
              /\ out[ev.ws][1].room = wsRoom[ev.ws]
        /\ wsRoom[ev.ws] = Undef => out[ev.ws] = <<>>

\* A socket without binding sent a chat naming no room: the socket bound to
\* "global" was handed it and the sender was not.
SenderEchoWitness ==
    /\ RelayStep
    /\ ev.msg.type = "chat" /\ ev.msg.room = Undef
    /\ wsRoom[ev.ws] = Undef
    /\ out[ev.ws] = <<>>
    /\ \E c \in Sessions : wsRoom[c] = "global" /\ Len(out[c]) = 1

=============================================================================
